---- MODULE Spec2Model ----
(***************************************************************************)
(* A model of the ETL framework of the Data-Warehouse repository:          *)
(*   - the task orchestrator (script_runner/run_script.py: main),          *)
(*   - the ETL window calculator and the audit record life cycle           *)
(*     (utilities/etl_audit_manager.py),                                   *)
(*   - the worker steps get_data / upload_to_dwh (custom_code/             *)
(*     script_worker.py) and the stage-and-merge loader                    *)
(*     (connectors/postgresql_connector.py: upload_to_pg, run_query),      *)
(*   - the command line parser (utilities/argument_parser.py).             *)
(* Timestamps are integers (one unit = one day).                           *)
(***************************************************************************)
EXTENDS Integers, Sequences, FiniteSets, TLC

(***************************************************************************)
(* Bounds of the model.                                                    *)
(***************************************************************************)
\* number of tasks of a generic task list
MaxTasks == 3
\* largest "retries" value of a task
MaxRetries == 2

\* largest "retries" value of a task of the project
MaxProjectRetries == 1
\* latest value of the clock
MaxNow == 2
\* largest max_days_to_load
MaxDays == 2
\* number of runs of the project
MaxRuns == 2
\* number of unique keys of the target table
MaxKeys == 2
\* number of values of a non-key column
MaxVals == 2

\* Python's None where a name or a status is expected
None == "None"

\* Python's None and SQL's NULL where a number or a timestamp is expected
Null == 0 - 1

(***************************************************************************)
(* State of one orchestrated run (run_script.main).                        *)
(***************************************************************************)
VARIABLES
    runner,                \* which main() drives the run: "run_script" or "script_runner"
    tasks,                 \* the list returned by factory.init_tasks()
    pc,                    \* position of main(): "init", "loop", "retry", "finally", "done"
    idx,                   \* index in tasks of the task the for loop is at
    attempt,               \* the retry loop's variable
    task_passed_finally,   \* flag of the retry loop
    success,               \* overall success flag
    success_registry,      \* names of the tasks that finished without error
    report,                \* rows added by email_manager.add_task_result_to_email
    calls,                 \* history: per task index, the outcome of each invocation of its function
    exit_code,             \* exit status of the process, Null until the exit
    final_errors           \* the exceptions caught and logged in the finally block

orchVars == <<runner, tasks, pc, idx, attempt, task_passed_finally, success,
              success_registry, report, calls, exit_code, final_errors>>

(***************************************************************************)
(* State of the project: clock, database, objects built by ScriptFactory.  *)
(***************************************************************************)
VARIABLES
    now,                   \* the clock (datetime.now(timezone.utc), CURRENT_TIMESTAMP)
    nruns,                 \* number of runs started so far
    args,                  \* arguments bound into the task functions by init_tasks
    audit,                 \* the table audit.etl_runs, row k has etl_runs_key = k
    am,                    \* fields of the EtlAuditManager object
    swc,                   \* fields of the ScriptWorker object
    file,                  \* the CSV at file_path: whether it exists, its rows
    target,                \* committed rows of the target table, by unique key
    conn,                  \* the connection of upload_to_pg: step reached, temp table, uncommitted rows
    closes,                \* history: the calls of update_etl_runs_table_record in this run, one UPDATE sent by each
    e                      \* "except Exception as e": where the exception raised last came from

etlVars == <<now, nruns, args, audit, am, swc, file, target, conn, closes, e>>

vars == <<orchVars, etlVars>>

\* Names of the tasks of a generic list, by position.
TaskName(i) == "task_" \o ToString(i)

\* A name that no task of the list carries.
AbsentName == "not_in_the_list"

TaskIndexes == 1..MaxTasks

\* depends_on values of a generic list: None, any name of the list, a name not in the list
DependsOnValues == {None, AbsentName} \cup {TaskName(i) : i \in TaskIndexes}

\* A task dictionary as built by init_tasks; a disabled task never reads retries and depends_on.
GenericTask(i) ==
    {[task_name |-> TaskName(i), function |-> "stub", depends_on |-> None,
      is_enabled |-> FALSE, retries |-> 0]}
    \cup
    {[task_name |-> TaskName(i), function |-> "stub", depends_on |-> d,
      is_enabled |-> TRUE, retries |-> r] : d \in DependsOnValues, r \in 0..MaxRetries}

\* All generic task lists of n tasks.
RECURSIVE GenericTaskListsOf(_)
GenericTaskListsOf(n) ==
    IF n = 0 THEN {<<>>}
    ELSE {Append(l, t) : l \in GenericTaskListsOf(n - 1), t \in GenericTask(n)}

GenericTaskLists == GenericTaskListsOf(MaxTasks)

\* State of main() before the for loop (success = True, success_registry = set()).
InitOrch(taskList, whichRunner) ==
    /\ runner = whichRunner
    /\ tasks = taskList
    /\ pc = "loop"
    /\ idx = 1
    /\ attempt = 0
    /\ task_passed_finally = FALSE
    /\ success = TRUE
    /\ success_registry = {}
    /\ report = <<>>
    /\ calls = [i \in 1..Len(taskList) |-> <<>>]
    /\ exit_code = Null
    /\ final_errors = {}

\* email_manager.add_task_result_to_email: one row per call
AddTaskResult(rows, i, status) == Append(rows, [task |-> i, status |-> status])

\* The statuses recorded for task i
StatusesOf(i) == {report[k].status : k \in {k \in 1..Len(report) : report[k].task = i}}

AtTask == pc = "loop" /\ idx <= Len(tasks)

\* 3. Is enabled check: a disabled task is logged and the loop continues.
SkipDisabled_fails_run ==
    /\ AtTask
    /\ ~tasks[idx].is_enabled
    /\ report' = (IF runner = "run_script" THEN AddTaskResult(report, idx, "DISABLED") ELSE report)
    /\ success' = FALSE
    /\ idx' = idx + 1
    /\ UNCHANGED <<runner, tasks, pc, attempt, task_passed_finally,
                   success_registry, calls, exit_code, final_errors>>
    /\ UNCHANGED etlVars

SkipDisabled ==
    /\ AtTask
    /\ ~tasks[idx].is_enabled
    /\ report' = (IF runner = "run_script" THEN AddTaskResult(report, idx, "DISABLED") ELSE report)
    /\ idx' = idx + 1
    /\ UNCHANGED <<runner, tasks, pc, attempt, task_passed_finally, success,
                   success_registry, calls, exit_code, final_errors>>
    /\ UNCHANGED etlVars

\* "if t_dep and (t_dep not in success_registry)"
DependencyUnmet_ignores_outcome(t) ==
    t.depends_on # None /\ t.depends_on \notin {tasks[k].task_name : k \in 1..(idx - 1)}

DependencyUnmet(t) == t.depends_on # None /\ t.depends_on \notin success_registry

\* 4. Dependency check of run_script.main: SKIPPED, success = False, continue.
SkipDependency_keeps_success ==
    /\ AtTask
    /\ runner = "run_script"
    /\ tasks[idx].is_enabled
    /\ DependencyUnmet(tasks[idx])
    /\ report' = AddTaskResult(report, idx, "SKIPPED")
    /\ idx' = idx + 1
    /\ UNCHANGED <<runner, tasks, pc, attempt, task_passed_finally, success,
                   success_registry, calls, exit_code, final_errors>>
    /\ UNCHANGED etlVars

SkipDependency_stops ==
    /\ AtTask
    /\ runner = "run_script"
    /\ tasks[idx].is_enabled
    /\ DependencyUnmet(tasks[idx])
    /\ report' = AddTaskResult(report, idx, "SKIPPED")
    /\ success' = FALSE
    /\ pc' = "finally"
    /\ UNCHANGED <<runner, tasks, idx, attempt, task_passed_finally,
                   success_registry, calls, exit_code, final_errors>>
    /\ UNCHANGED etlVars

SkipDependency ==
    /\ AtTask
    /\ runner = "run_script"
    /\ tasks[idx].is_enabled
    /\ DependencyUnmet(tasks[idx])
    /\ report' = AddTaskResult(report, idx, "SKIPPED")
    /\ success' = FALSE
    /\ idx' = idx + 1
    /\ UNCHANGED <<runner, tasks, pc, attempt, task_passed_finally,
                   success_registry, calls, exit_code, final_errors>>
    /\ UNCHANGED etlVars

\* 4. Dependency check of script_runner.main: success = False, break.
StopOnDependency ==
    /\ AtTask
    /\ runner = "script_runner"
    /\ tasks[idx].is_enabled
    /\ DependencyUnmet(tasks[idx])
    /\ success' = FALSE
    /\ pc' = "finally"
    /\ UNCHANGED <<runner, tasks, idx, attempt, task_passed_finally,
                   success_registry, report, calls, exit_code, final_errors>>
    /\ UNCHANGED etlVars

\* 5. Entering the retry loop: task_passed_finally = False, attempt = 0.
BeginTask ==
    /\ AtTask
    /\ tasks[idx].is_enabled
    /\ ~DependencyUnmet(tasks[idx])
    /\ task_passed_finally' = FALSE
    /\ attempt' = 0
    /\ pc' = "retry"
    /\ UNCHANGED <<runner, tasks, idx, success, success_registry, report, calls, exit_code, final_errors>>
    /\ UNCHANGED etlVars

\* The retry loop is about to call t_func() of a task whose function is f.
Calling(f) == pc = "retry" /\ tasks[idx].function = f

\* t_func() returned: flag, registry, SUCCESS row, break; no halt, next task.
TaskReturned_resets_registry ==
    /\ task_passed_finally' = TRUE
    /\ success_registry' = {tasks[idx].task_name}
    /\ report' = (IF runner = "run_script" THEN AddTaskResult(report, idx, "SUCCESS") ELSE report)
    /\ calls' = [calls EXCEPT ![idx] = Append(@, "returned")]
    /\ idx' = idx + 1
    /\ pc' = "loop"
    /\ UNCHANGED <<runner, tasks, attempt, success, exit_code, final_errors>>

TaskReturned ==
    /\ task_passed_finally' = TRUE
    /\ success_registry' = success_registry \cup {tasks[idx].task_name}
    /\ report' = (IF runner = "run_script" THEN AddTaskResult(report, idx, "SUCCESS") ELSE report)
    /\ calls' = [calls EXCEPT ![idx] = Append(@, "returned")]
    /\ idx' = idx + 1
    /\ pc' = "loop"
    /\ UNCHANGED <<runner, tasks, attempt, success, exit_code, final_errors>>

\* 6. Pipeline halt after the retry loop ended with task_passed_finally = False.
PipelineHalt_continue ==
    /\ success' = FALSE
    /\ pc' = "loop"
    /\ idx' = idx + 1

PipelineHalt ==
    /\ success' = FALSE
    /\ pc' = "finally"
    /\ idx' = idx

\* "if attempt < t_retries": another attempt follows the failed one.
RetriesLeft_off_by_one == attempt <= tasks[idx].retries

RetriesLeft == attempt < tasks[idx].retries

\* t_func() raised: wait and retry while retries are left, else FAILED and halt.
TaskRaised ==
    /\ calls' = [calls EXCEPT ![idx] = Append(@, "raised")]
    /\ IF RetriesLeft
       THEN /\ attempt' = attempt + 1
            /\ UNCHANGED <<pc, idx, success, report>>
       ELSE /\ report' = (IF runner = "run_script" THEN AddTaskResult(report, idx, "FAILED") ELSE report)
            /\ attempt' = attempt
            /\ PipelineHalt
    /\ UNCHANGED <<runner, tasks, task_passed_finally, success_registry, exit_code, final_errors>>

\* A task function of a generic list: it returns or it raises.
InvokeStub ==
    /\ Calling("stub")
    /\ \/ TaskReturned /\ UNCHANGED e
       \/ TaskRaised /\ e' = "stub"
    /\ UNCHANGED <<now, nruns, args, audit, am, swc, file, target, conn, closes>>

\* The for loop ran out of tasks.
LoopEnd ==
    /\ pc = "loop"
    /\ idx > Len(tasks)
    /\ pc' = "finally"
    /\ UNCHANGED <<runner, tasks, idx, attempt, task_passed_finally, success,
                   success_registry, report, calls, exit_code, final_errors>>
    /\ UNCHANGED etlVars

\* finally: final status, e-mails and log maintenance, each in a try whose except
\* only logs, then sys.exit(0 if success else 1).
Finally_email_error_repeats ==
    /\ pc = "finally"
    /\ final_errors' \in SUBSET {"email_error", "maintenance_error"}
    /\ IF "email_error" \in final_errors'
       THEN pc' = "finally" /\ exit_code' = exit_code
       ELSE pc' = "done" /\ exit_code' = (IF success THEN 0 ELSE 1)
    /\ UNCHANGED <<runner, tasks, idx, attempt, task_passed_finally, success,
                   success_registry, report, calls>>
    /\ UNCHANGED etlVars

Finally_failed_email_exits_one ==
    /\ pc = "finally"
    /\ pc' = "done"
    /\ final_errors' \in SUBSET {"email_error", "maintenance_error"}
    /\ exit_code' = (IF success /\ final_errors' = {} THEN 0 ELSE 1)
    /\ UNCHANGED <<runner, tasks, idx, attempt, task_passed_finally, success,
                   success_registry, report, calls>>
    /\ UNCHANGED etlVars

Finally_exit_zero ==
    /\ pc = "finally"
    /\ pc' = "done"
    /\ exit_code' = 0
    /\ final_errors' \in SUBSET {"email_error", "maintenance_error"}
    /\ UNCHANGED <<runner, tasks, idx, attempt, task_passed_finally, success,
                   success_registry, report, calls>>
    /\ UNCHANGED etlVars

Finally ==
    /\ pc = "finally"
    /\ pc' = "done"
    /\ exit_code' = (IF success THEN 0 ELSE 1)
    /\ final_errors' \in SUBSET {"email_error", "maintenance_error"}
    /\ UNCHANGED <<runner, tasks, idx, attempt, task_passed_finally, success,
                   success_registry, report, calls>>
    /\ UNCHANGED etlVars

(***************************************************************************)
(* The project: values and objects.                                        *)
(***************************************************************************)
Min(a, b) == IF a <= b THEN a ELSE b

Max(a, b) == IF a >= b THEN a ELSE b

\* timedelta(days=1)
OneDay == 1

\* f'{self.schema}.{self.table}' of this project
TargetTable == "financial_data.ethereum"

Keys == 1..MaxKeys

Vals == 1..MaxVals

\* The rows a source query can return: a value of the non-key column per unique key.
Batches == UNION {[K -> Vals] : K \in SUBSET Keys}

EmptyBatch == << >>

\* A key that has no row in a table.
NoRow == [val |-> Null, etl_runs_key |-> Null, created_at |-> Null, modified_at |-> Null]

\* No CSV at file_path.
NoFile == [exists |-> FALSE, rows |-> EmptyBatch, etl_runs_key |-> Null]

EmptyTable == [k \in Keys |-> NoRow]

\* EtlAuditManager.__init__
NewAuditManager_with_window ==
    [etl_runs_key |-> Null, sdt |-> 0, edt |-> 0, data_min_date |-> Null,
     data_max_date |-> Null, prev_max_date |-> Null, num_of_records |-> Null]

NewAuditManager ==
    [etl_runs_key |-> Null, sdt |-> Null, edt |-> Null, data_min_date |-> Null,
     data_max_date |-> Null, prev_max_date |-> Null, num_of_records |-> Null]

\* ScriptWorker.__init__
NewScriptWorker ==
    [num_of_records |-> Null, status |-> None, data_min_date |-> Null, data_max_date |-> Null]

\* No connection of upload_to_pg is open.
ClosedConn == [step |-> "closed", temp |-> None, work |-> None]

\* parse_arguments: a forced start date comes with load type F, max_days_to_load matches \d+;
\* increment_sdt is read in I mode only
ArgumentSets ==
    {[forced_sdt |-> f, load_type |-> l, max_days_to_load |-> m, increment_sdt |-> i,
      delete_output |-> d] :
        f \in {Null} \cup (0..MaxNow), l \in {"F", "I"}, m \in 0..MaxDays,
        i \in BOOLEAN, d \in BOOLEAN}

RunArguments ==
    {a \in ArgumentSets : /\ a.forced_sdt # Null => a.load_type = "F"
                          /\ a.increment_sdt => a.load_type = "I"}

\* init_tasks: the five tasks of the project, with their retries and is_enabled settings
InitTasks_close_unchained(retries, enabled) ==
    <<[task_name |-> "insert_etl_runs_record", function |-> "insert_audit_etl_runs_record",
       depends_on |-> None, is_enabled |-> enabled[1], retries |-> retries[1]],
      [task_name |-> "set_comments", function |-> "run_query",
       depends_on |-> "insert_etl_runs_record", is_enabled |-> enabled[2], retries |-> retries[2]],
      [task_name |-> "get_data", function |-> "get_data",
       depends_on |-> "set_comments", is_enabled |-> enabled[3], retries |-> retries[3]],
      [task_name |-> "upload_to_pg", function |-> "upload_to_dwh",
       depends_on |-> "get_data", is_enabled |-> enabled[4], retries |-> retries[4]],
      [task_name |-> "update_etl_runs_table_record", function |-> "update_etl_runs_table_record",
       depends_on |-> None, is_enabled |-> enabled[5], retries |-> retries[5]]>>

InitTasks(retries, enabled) ==
    <<[task_name |-> "insert_etl_runs_record", function |-> "insert_audit_etl_runs_record",
       depends_on |-> None, is_enabled |-> enabled[1], retries |-> retries[1]],
      [task_name |-> "set_comments", function |-> "run_query",
       depends_on |-> "insert_etl_runs_record", is_enabled |-> enabled[2], retries |-> retries[2]],
      [task_name |-> "get_data", function |-> "get_data",
       depends_on |-> "set_comments", is_enabled |-> enabled[3], retries |-> retries[3]],
      [task_name |-> "upload_to_pg", function |-> "upload_to_dwh",
       depends_on |-> "get_data", is_enabled |-> enabled[4], retries |-> retries[4]],
      [task_name |-> "update_etl_runs_table_record", function |-> "update_etl_runs_table_record",
       depends_on |-> "upload_to_pg", is_enabled |-> enabled[5], retries |-> retries[5]]>>

\* The settings written in init_tasks: every task enabled, retries 0.
CodedTasks == InitTasks([i \in 1..5 |-> 0], [i \in 1..5 |-> TRUE])

(***************************************************************************)
(* EtlAuditManager._calculate_etl_window                                   *)
(***************************************************************************)
\* prev_max_date_query: data_max_date of the Complete run of the target with the largest key
PrevMaxDate_any_status(rows, table) ==
    LET ofTable == {k \in 1..Len(rows) : rows[k].target_table = table}
    IN  IF ofTable = {} THEN Null
        ELSE rows[CHOOSE k \in ofTable : \A j \in ofTable : j <= k].data_max_date

PrevMaxDate(rows, table) ==
    LET complete == {k \in 1..Len(rows) :
                        rows[k].target_table = table /\ rows[k].status = "Complete"}
    IN  IF complete = {} THEN Null
        ELSE rows[CHOOSE k \in complete : \A j \in complete : j <= k].data_max_date

\* 6. sdt of an incremental load
IncrementalStart(prev, increment_sdt) ==
    IF increment_sdt THEN prev + OneDay ELSE prev

\* 8. edt of an incremental load: the minimum of now_utc and max_window_end
IncrementalEnd_uncapped(now_utc, max_window_end) == max_window_end

IncrementalEnd(now_utc, max_window_end) == Min(now_utc, max_window_end)

\* 4. F mode without a forced_sdt and without a previous max date: ValueError
FullModeRaises_never(forced_sdt, prev) == FALSE

FullModeRaises(forced_sdt, prev) == forced_sdt = Null /\ prev = Null

\* 4. sdt of a full load: the forced_sdt when one is passed, else the previous max date
FullStart_prefers_previous(forced_sdt, prev) == IF prev # Null THEN prev ELSE forced_sdt

FullStart(forced_sdt, prev) == IF forced_sdt # Null THEN forced_sdt ELSE prev

\* 5. edt of a full load: exactly max_days_to_load days after sdt
FullEnd_capped(sdt, max_days_to_load) == Min(now, sdt + max_days_to_load)

FullEnd(sdt, max_days_to_load) == sdt + max_days_to_load

\* "elif load_type == 'I' and self.prev_max_date": the branch of an incremental load is taken
IncrementalBranch(load_type, prev) == load_type = "I" /\ prev # Null

\* Steps 4-8 on the object's sdt and edt; raised stands for the ValueError of F mode.
\* When no branch assigns them, sdt and edt are returned as the object holds them.
CalculateEtlWindow_start_capped(m, prev, now_utc, a) ==
    IF a.load_type = "F"
    THEN IF FullModeRaises(a.forced_sdt, prev)
         THEN [raised |-> TRUE, sdt |-> m.sdt, edt |-> m.edt]
         ELSE LET start == Min(now_utc, FullStart(a.forced_sdt, prev))
              IN  [raised |-> FALSE, sdt |-> start, edt |-> FullEnd(start, a.max_days_to_load)]
    ELSE IF IncrementalBranch(a.load_type, prev)
         THEN LET start == Min(now_utc, IncrementalStart(prev, a.increment_sdt))
              IN  [raised |-> FALSE, sdt |-> start,
                   edt |-> IncrementalEnd(now_utc, start + a.max_days_to_load)]
         ELSE [raised |-> FALSE, sdt |-> m.sdt, edt |-> m.edt]

CalculateEtlWindow(m, prev, now_utc, a) ==
    IF a.load_type = "F"
    THEN IF FullModeRaises(a.forced_sdt, prev)
         THEN [raised |-> TRUE, sdt |-> m.sdt, edt |-> m.edt]
         ELSE LET start == FullStart(a.forced_sdt, prev)
              IN  [raised |-> FALSE, sdt |-> start, edt |-> FullEnd(start, a.max_days_to_load)]
    ELSE IF IncrementalBranch(a.load_type, prev)
         THEN LET start == IncrementalStart(prev, a.increment_sdt)
              IN  [raised |-> FALSE, sdt |-> start,
                   edt |-> IncrementalEnd(now_utc, start + a.max_days_to_load)]
         ELSE [raised |-> FALSE, sdt |-> m.sdt, edt |-> m.edt]

\* The row of the INSERT INTO audit.etl_runs
NewAuditRecord(key, a, w) ==
    [etl_runs_key |-> key, load_type |-> a.load_type, target_table |-> TargetTable,
     start_load_date |-> w.sdt, end_load_date |-> w.edt, data_min_date |-> Null,
     data_max_date |-> Null, status |-> "In Progress", num_of_records |-> Null,
     prev_max_date |-> Null]

\* insert_audit_etl_runs_record: DDL, window, INSERT ... RETURNING etl_runs_key
InsertAuditEtlRunsRecord ==
    /\ Calling("insert_audit_etl_runs_record")
    /\ \/ \* create_schema, the CREATE TABLE or the previous-max-date query raised
          /\ TaskRaised
          /\ e' = "run_query"
          /\ UNCHANGED <<am, audit>>
       \/ LET prev == PrevMaxDate(audit, TargetTable)
              w == CalculateEtlWindow(am, prev, now, args)
              key == Len(audit) + 1
          IN  IF w.raised \/ w.sdt = Null \/ w.edt = Null
              THEN \* ValueError of F mode, or None.strftime in the INSERT text
                   /\ am' = [am EXCEPT !.prev_max_date = prev]
                   /\ TaskRaised
                   /\ e' = (IF w.raised THEN "ValueError" ELSE "AttributeError")
                   /\ UNCHANGED audit
              ELSE \/ /\ am' = [am EXCEPT !.prev_max_date = prev, !.sdt = w.sdt, !.edt = w.edt,
                                          !.etl_runs_key = key]
                      /\ audit' = Append(audit, NewAuditRecord(key, args, w))
                      /\ TaskReturned
                      /\ UNCHANGED e
                   \/ \* the INSERT raised
                      /\ am' = [am EXCEPT !.prev_max_date = prev, !.sdt = w.sdt, !.edt = w.edt]
                      /\ TaskRaised
                      /\ e' = "run_query"
                      /\ UNCHANGED audit
    /\ UNCHANGED <<now, nruns, args, swc, file, target, conn, closes>>

\* run_query(set_comments, commit=True): no state of the model changes
SetComments ==
    /\ Calling("run_query")
    /\ \/ TaskReturned /\ UNCHANGED e
       \/ TaskRaised /\ e' = "run_query"
    /\ UNCHANGED <<now, nruns, args, audit, am, swc, file, target, conn, closes>>

(***************************************************************************)
(* ScriptWorker.get_data                                                   *)
(***************************************************************************)
\* len(df) > 0: record count, data dates of the manager set, CSV written
GetDataRows(batch, min_date, max_date) ==
    /\ swc' = [swc EXCEPT !.num_of_records = Cardinality(DOMAIN batch)]
    /\ am' = [am EXCEPT !.data_min_date = min_date, !.data_max_date = max_date]
    /\ file' = [exists |-> TRUE, rows |-> batch, etl_runs_key |-> am.etl_runs_key]

\* len(df) = 0: min and max dates are left at the start date, no file
GetDataEmpty_max_at_end ==
    /\ swc' = [swc EXCEPT !.num_of_records = 0, !.data_min_date = Null, !.data_max_date = Null]
    /\ am' = [am EXCEPT !.data_min_date = am.sdt, !.data_max_date = am.edt]
    /\ file' = file

GetDataEmpty ==
    /\ swc' = [swc EXCEPT !.num_of_records = 0, !.data_min_date = Null, !.data_max_date = Null]
    /\ am' = [am EXCEPT !.data_min_date = am.sdt, !.data_max_date = am.sdt]
    /\ file' = file

\* The source query selects "BETWEEN sdt AND edt": nothing when sdt > edt.
GetData ==
    /\ Calling("get_data")
    /\ \/ \* sdt is None (None.strftime), or the source query raised
          /\ TaskRaised
          /\ e' = "get_data"
          /\ UNCHANGED <<am, swc, file>>
       \/ /\ am.sdt # Null
          /\ am.edt # Null
          /\ \E batch \in Batches :
                /\ am.sdt > am.edt => batch = EmptyBatch
                /\ IF batch # EmptyBatch
                   THEN GetDataRows(batch, am.sdt, am.edt)
                   ELSE GetDataEmpty
          /\ TaskReturned
          /\ UNCHANGED e
    /\ UNCHANGED <<now, nruns, args, audit, target, conn, closes>>

(***************************************************************************)
(* EtlUtils.process_dataframe_date_ranges                                  *)
(***************************************************************************)
\* Timestamps a date column of the source can hold.
Dates == 0..(MaxNow + MaxDays)

\* 5. the minimum and the maximum found in the date columns, clamped with sdt and edt
ProcessDataframeDateRanges(calculated_min_date, calculated_max_date, sdt_utc, edt_utc) ==
    [data_min_date |-> Max(calculated_min_date, sdt_utc),
     data_max_date |-> Min(calculated_max_date, edt_utc)]

\* get_data of a worker whose rows carry date columns: the data dates of the manager
\* are set by process_dataframe_date_ranges instead of by hand.
GetDataDateColumns ==
    /\ Calling("get_data")
    /\ \/ /\ TaskRaised
          /\ e' = "get_data"
          /\ UNCHANGED <<am, swc, file>>
       \/ /\ am.sdt # Null
          /\ am.edt # Null
          /\ \E batch \in Batches :
                /\ am.sdt > am.edt => batch = EmptyBatch
                /\ IF batch # EmptyBatch
                   THEN \E lo \in Dates, hi \in Dates :
                          /\ lo <= hi
                          /\ LET d == ProcessDataframeDateRanges(lo, hi, am.sdt, am.edt)
                             IN  GetDataRows(batch, d.data_min_date, d.data_max_date)
                   ELSE GetDataEmpty
          /\ TaskReturned
          /\ UNCHANGED e
    /\ UNCHANGED <<now, nruns, args, audit, target, conn, closes>>

(***************************************************************************)
(* EtlAuditManager.update_etl_runs_table_record                            *)
(***************************************************************************)
\* 1.-2. the record count and, when set, the worker's dates are copied to the manager
ManagerAtClose ==
    [am EXCEPT !.num_of_records = swc.num_of_records,
               !.data_min_date = IF swc.data_min_date # Null THEN swc.data_min_date ELSE @,
               !.data_max_date = IF swc.data_max_date # Null THEN swc.data_max_date ELSE @]

\* The UPDATE text is valid SQL unless it reads "num_of_records = None" or "etl_runs_key = None".
UpdateQueryValid == swc.num_of_records # Null /\ am.etl_runs_key # Null

\* UPDATE audit.etl_runs SET ... WHERE etl_runs_key = {self.etl_runs_key}
UpdatedAuditTable_open_records(status) ==
    LET m == ManagerAtClose
    IN  [k \in 1..Len(audit) |->
            IF audit[k].status = "In Progress"
            THEN [audit[k] EXCEPT !.data_min_date = m.data_min_date,
                                  !.data_max_date = m.data_max_date,
                                  !.status = status,
                                  !.num_of_records = m.num_of_records,
                                  !.prev_max_date = m.prev_max_date]
            ELSE audit[k]]

UpdatedAuditTable(status) ==
    LET m == ManagerAtClose
    IN  [k \in 1..Len(audit) |->
            IF audit[k].etl_runs_key = m.etl_runs_key
            THEN [audit[k] EXCEPT !.data_min_date = m.data_min_date,
                                  !.data_max_date = m.data_max_date,
                                  !.status = status,
                                  !.num_of_records = m.num_of_records,
                                  !.prev_max_date = m.prev_max_date]
            ELSE audit[k]]

\* One call of update_etl_runs_table_record(status); ok tells whether the UPDATE was committed.
RunUpdateEtlRunsTableRecord(status, ok) ==
    /\ am' = ManagerAtClose
    /\ ok => UpdateQueryValid
    /\ audit' = (IF ok THEN UpdatedAuditTable(status) ELSE audit)
    /\ closes' = Append(closes, [etl_runs_key |-> am.etl_runs_key, status |-> status,
                                 committed |-> ok])

\* Task 5: update_etl_runs_table_record(status='Complete')
UpdateEtlRunsTableRecord ==
    /\ Calling("update_etl_runs_table_record")
    /\ \/ RunUpdateEtlRunsTableRecord("Complete", TRUE) /\ TaskReturned /\ UNCHANGED e
       \/ RunUpdateEtlRunsTableRecord("Complete", FALSE) /\ TaskRaised
          /\ e' = "update_etl_runs_table_record"
    /\ UNCHANGED <<now, nruns, args, swc, file, target, conn>>

(***************************************************************************)
(* ScriptWorker.upload_to_dwh and PostgresConnector.upload_to_pg           *)
(***************************************************************************)
\* MERGE INTO target USING temp ON key: matched rows are updated, the others inserted
\* (UNIQUE(tax_hash) keeps one row per key)
MergeInto_writes_new_rows(table, staged, ts) ==
    [k \in Keys |->
        IF k \notin DOMAIN staged.rows THEN table[k]
        ELSE [val |-> staged.rows[k], etl_runs_key |-> staged.etl_runs_key,
              created_at |-> ts, modified_at |-> ts]]

MergeInto_keeps_matched_values(table, staged, ts) ==
    [k \in Keys |->
        IF k \notin DOMAIN staged.rows THEN table[k]
        ELSE IF table[k] # NoRow
             THEN [table[k] EXCEPT !.etl_runs_key = staged.etl_runs_key,
                                   !.modified_at = ts]
             ELSE [val |-> staged.rows[k], etl_runs_key |-> staged.etl_runs_key,
                   created_at |-> ts, modified_at |-> ts]]

MergeInto(table, staged, ts) ==
    [k \in Keys |->
        IF k \notin DOMAIN staged.rows THEN table[k]
        ELSE IF table[k] # NoRow
             THEN [table[k] EXCEPT !.val = staged.rows[k],
                                   !.etl_runs_key = staged.etl_runs_key,
                                   !.modified_at = ts]
             ELSE [val |-> staged.rows[k], etl_runs_key |-> staged.etl_runs_key,
                   created_at |-> ts, modified_at |-> ts]]

\* "finally" of upload_to_dwh: the file is removed when delete_output is set
FileAfterUpload == IF args.delete_output THEN NoFile ELSE file

\* Leaving "with conn" by an exception rolls the transaction back.
Rollback_partial_commit ==
    /\ conn' = ClosedConn
    /\ target' = (IF conn.step \in {"merged", "dropped"} THEN conn.work ELSE target)

Rollback ==
    /\ conn' = ClosedConn
    /\ target' = target

\* "raise e" of upload_to_dwh: the exception of upload_to_pg leaves the function,
\* whether the audit update went through (ok) or raised and was logged.
Reraised_update_error(ok) == IF ok THEN "upload_to_pg" ELSE "update_etl_runs_table_record"

Reraised(ok) == "upload_to_pg"

\* A step of upload_to_pg raised: rollback, then the except branch of upload_to_dwh
\* (status Error, the audit update is tried and its failure only logged, re-raise).
UploadRaised ==
    /\ Rollback
    /\ swc' = [swc EXCEPT !.status = "Error"]
    /\ \E ok \in BOOLEAN : RunUpdateEtlRunsTableRecord("Error", ok) /\ e' = Reraised(ok)
    /\ file' = FileAfterUpload
    /\ TaskRaised

\* 1. "if not os.path.exists(file_path)": nothing to upload, status Complete, return
UploadNoFile_tries_upload ==
    /\ Calling("upload_to_dwh")
    /\ conn.step = "closed"
    /\ ~file.exists
    /\ UploadRaised
    /\ UNCHANGED <<now, nruns, args>>

UploadNoFile ==
    /\ Calling("upload_to_dwh")
    /\ conn.step = "closed"
    /\ ~file.exists
    /\ swc' = [swc EXCEPT !.status = "Complete"]
    /\ TaskReturned
    /\ UNCHANGED <<now, nruns, args, audit, am, file, target, conn, closes, e>>

\* The retry loop stays in t_func() while upload_to_pg goes on.
StayInCall == UNCHANGED <<orchVars, swc, file, target, audit, am, closes, e>>

\* 2. connection opened, CREATE TEMP TABLE temp_<table> (LIKE <schema>.<table> ...)
CreateTempTable ==
    /\ Calling("upload_to_dwh")
    /\ conn.step = "closed"
    /\ file.exists
    /\ \/ conn' = [step |-> "created", temp |-> [rows |-> EmptyBatch, etl_runs_key |-> Null],
                   work |-> target]
          /\ StayInCall
       \/ UploadRaised
    /\ UNCHANGED <<now, nruns, args>>

\* 3.-6. the CSV is read and copied into the temporary table
CopyFrom ==
    /\ Calling("upload_to_dwh")
    /\ conn.step = "created"
    /\ \/ conn' = [conn EXCEPT !.step = "copied",
                                !.temp = [rows |-> file.rows, etl_runs_key |-> file.etl_runs_key]] /\ StayInCall
       \/ UploadRaised
    /\ UNCHANGED <<now, nruns, args>>

\* 7. MERGE INTO the target table, not yet committed
Merge ==
    /\ Calling("upload_to_dwh")
    /\ conn.step = "copied"
    /\ \/ conn' = [conn EXCEPT !.step = "merged", !.work = MergeInto(conn.work, conn.temp, now)]
          /\ StayInCall
       \/ UploadRaised
    /\ UNCHANGED <<now, nruns, args>>

\* 8. DROP TABLE temp_<table>
DropTempTable_commits_first ==
    /\ Calling("upload_to_dwh")
    /\ conn.step = "merged"
    /\ \/ /\ conn' = [conn EXCEPT !.step = "dropped", !.temp = None]
          /\ target' = conn.work
          /\ UNCHANGED <<orchVars, swc, file, audit, am, closes, e>>
       \/ UploadRaised
    /\ UNCHANGED <<now, nruns, args>>

DropTempTable ==
    /\ Calling("upload_to_dwh")
    /\ conn.step = "merged"
    /\ \/ conn' = [conn EXCEPT !.step = "dropped", !.temp = None] /\ StayInCall
       \/ UploadRaised
    /\ UNCHANGED <<now, nruns, args>>

\* 9. conn.commit(); back in upload_to_dwh: status Complete, file removed, return
Commit ==
    /\ Calling("upload_to_dwh")
    /\ conn.step = "dropped"
    /\ \/ /\ target' = conn.work
          /\ conn' = ClosedConn
          /\ swc' = [swc EXCEPT !.status = "Complete"]
          /\ file' = FileAfterUpload
          /\ TaskReturned
          /\ UNCHANGED <<audit, am, closes, e>>
       \/ UploadRaised
    /\ UNCHANGED <<now, nruns, args>>

(***************************************************************************)
(* Runs of the project as it is configured in init_tasks.                  *)
(***************************************************************************)
Init ==
    /\ InitOrch(CodedTasks, "run_script")
    /\ now \in 0..MaxNow
    /\ nruns = 1
    /\ args \in RunArguments
    /\ audit = << >>
    /\ am = NewAuditManager
    /\ swc = NewScriptWorker
    /\ file = NoFile
    /\ target = EmptyTable
    /\ conn = ClosedConn
    /\ closes = << >>
    /\ e = None

\* A new process runs run_script.main: new objects, a new file_path, the database is kept.
StartRun ==
    /\ pc = "done"
    /\ nruns < MaxRuns
    /\ nruns' = nruns + 1
    /\ now' \in now..MaxNow
    /\ args' \in RunArguments
    /\ am' = NewAuditManager
    /\ swc' = NewScriptWorker
    /\ file' = NoFile
    /\ conn' = ClosedConn
    /\ pc' = "loop"
    /\ idx' = 1
    /\ attempt' = 0
    /\ task_passed_finally' = FALSE
    /\ success' = TRUE
    /\ success_registry' = {}
    /\ report' = << >>
    /\ calls' = [i \in 1..Len(tasks) |-> << >>]
    /\ exit_code' = Null
    /\ final_errors' = {}
    /\ closes' = << >>
    /\ e' = None
    /\ UNCHANGED <<runner, tasks, audit, target>>

Next ==
    \/ BeginTask
    \/ InsertAuditEtlRunsRecord
    \/ SetComments
    \/ GetData
    \/ UploadNoFile
    \/ CreateTempTable
    \/ CopyFrom
    \/ Merge
    \/ DropTempTable
    \/ Commit
    \/ UpdateEtlRunsTableRecord
    \/ LoopEnd
    \/ Finally
    \/ StartRun

Spec == Init /\ [][Next]_vars

(***************************************************************************)
(* One run of a project whose worker reads the data dates from date        *)
(* columns with process_dataframe_date_ranges.                             *)
(***************************************************************************)
NextDates ==
    \/ BeginTask
    \/ InsertAuditEtlRunsRecord
    \/ SetComments
    \/ GetDataDateColumns
    \/ UploadNoFile
    \/ CreateTempTable
    \/ CopyFrom
    \/ Merge
    \/ DropTempTable
    \/ Commit
    \/ UpdateEtlRunsTableRecord
    \/ LoopEnd
    \/ Finally

SpecDates == Init /\ [][NextDates]_vars

(***************************************************************************)
(* One run of the project under every retries and is_enabled setting of    *)
(* its five tasks, on an audit table with or without an earlier run.       *)
(***************************************************************************)
\* A disabled task never reads its retries.
TaskSettings ==
    {s \in [1..5 -> [is_enabled : BOOLEAN, retries : 0..MaxProjectRetries]] :
        \A i \in 1..5 : ~s[i].is_enabled => s[i].retries = 0}

\* The audit record of an earlier Complete full load of the window [0, 0].
EarlierRun ==
    [etl_runs_key |-> 1, load_type |-> "F", target_table |-> TargetTable,
     start_load_date |-> 0, end_load_date |-> 0, data_min_date |-> 0,
     data_max_date |-> 0, status |-> "Complete", num_of_records |-> 0,
     prev_max_date |-> Null]

\* Full load from a forced start or incremental load, file kept or deleted.
TaskRunArguments ==
    {a \in RunArguments : /\ a.max_days_to_load = 1
                          /\ ~a.increment_sdt
                          /\ a.load_type = "F" => a.forced_sdt = 0}

InitTasksRun ==
    /\ \E s \in TaskSettings :
          InitOrch(InitTasks([i \in 1..5 |-> s[i].retries], [i \in 1..5 |-> s[i].is_enabled]),
                   "run_script")
    /\ now = 1
    /\ nruns = 1
    /\ args \in TaskRunArguments
    /\ audit \in {<< >>, <<EarlierRun>>}
    /\ am = NewAuditManager
    /\ swc = NewScriptWorker
    /\ file = NoFile
    /\ target = EmptyTable
    /\ conn = ClosedConn
    /\ closes = << >>
    /\ e = None

NextTasks ==
    \/ SkipDisabled
    \/ SkipDependency
    \/ BeginTask
    \/ InsertAuditEtlRunsRecord
    \/ SetComments
    \/ GetData
    \/ UploadNoFile
    \/ CreateTempTable
    \/ CopyFrom
    \/ Merge
    \/ DropTempTable
    \/ Commit
    \/ UpdateEtlRunsTableRecord
    \/ LoopEnd
    \/ Finally

SpecTasks == InitTasksRun /\ [][NextTasks]_vars

(***************************************************************************)
(* The orchestrator over every generic task list.                          *)
(***************************************************************************)
InitGeneric ==
    /\ \E l \in GenericTaskLists, r \in {"run_script", "script_runner"} : InitOrch(l, r)
    /\ now = 0
    /\ nruns = 1
    /\ args = CHOOSE a \in RunArguments : TRUE
    /\ audit = << >>
    /\ am = NewAuditManager
    /\ swc = NewScriptWorker
    /\ file = NoFile
    /\ target = EmptyTable
    /\ conn = ClosedConn
    /\ closes = << >>
    /\ e = None

NextGeneric ==
    \/ SkipDisabled
    \/ SkipDependency
    \/ StopOnDependency
    \/ BeginTask
    \/ InvokeStub
    \/ LoopEnd
    \/ Finally

SpecGeneric == InitGeneric /\ [][NextGeneric]_vars

(***************************************************************************)
(* The opening of a run on an audit table that earlier runs of this and of *)
(* another project have written to.                                        *)
(***************************************************************************)
\* number of records in audit.etl_runs when the run starts
MaxHistory == 3

\* f'{schema}.{table}' of the other project that writes to audit.etl_runs
OtherTable == "gleif.lei_records"

\* The record with key k left by an earlier run: closed Complete or Error with the
\* data_max_date it had, or left In Progress by a run that never closed it.
HistoryRecords(k) ==
    {[etl_runs_key |-> k, load_type |-> "F", target_table |-> t,
      start_load_date |-> 0, end_load_date |-> MaxNow, data_min_date |-> 0,
      data_max_date |-> d, status |-> "Complete", num_of_records |-> 1,
      prev_max_date |-> Null] : t \in {TargetTable, OtherTable}, d \in 0..MaxNow}
    \cup
    {[etl_runs_key |-> k, load_type |-> "F", target_table |-> t,
      start_load_date |-> 0, end_load_date |-> MaxNow, data_min_date |-> d,
      data_max_date |-> d, status |-> "Error", num_of_records |-> 1,
      prev_max_date |-> Null] : t \in {TargetTable, OtherTable}, d \in {Null, MaxNow}}
    \cup
    {[etl_runs_key |-> k, load_type |-> "F", target_table |-> t,
      start_load_date |-> 0, end_load_date |-> MaxNow, data_min_date |-> Null,
      data_max_date |-> Null, status |-> "In Progress", num_of_records |-> Null,
      prev_max_date |-> Null] : t \in {TargetTable, OtherTable}}

\* The audit tables of n records.
RECURSIVE HistoriesOf(_)
HistoriesOf(n) ==
    IF n = 0 THEN {<< >>}
    ELSE {Append(h, r) : h \in HistoriesOf(n - 1), r \in HistoryRecords(n)}

Histories == UNION {HistoriesOf(n) : n \in 0..MaxHistory}

\* Arguments of the run: every load type, forced start and increment flag.
HistoryRunArguments ==
    {a \in RunArguments : ~a.delete_output /\ a.max_days_to_load = MaxDays}

InitHistory ==
    /\ InitOrch(CodedTasks, "run_script")
    /\ now = MaxNow
    /\ nruns = 1
    /\ args \in HistoryRunArguments
    /\ audit \in Histories
    /\ am = NewAuditManager
    /\ swc = NewScriptWorker
    /\ file = NoFile
    /\ target = EmptyTable
    /\ conn = ClosedConn
    /\ closes = << >>
    /\ e = None

\* The run up to the end of its first task, and its end when that task failed.
NextHistory ==
    \/ BeginTask
    \/ InsertAuditEtlRunsRecord
    \/ Finally

SpecHistory == InitHistory /\ [][NextHistory]_vars

(***************************************************************************)
(* One run of the project's five tasks listed without depends_on, under    *)
(* every is_enabled setting: a task runs whether or not the tasks before   *)
(* it ran.                                                                 *)
(***************************************************************************)
\* The five tasks with "depends_on": None
UnchainedTasks(enabled) ==
    [i \in 1..5 |-> [InitTasks([j \in 1..5 |-> 0], enabled)[i] EXCEPT !.depends_on = None]]

InitUnchained ==
    /\ \E enabled \in [1..5 -> BOOLEAN] : InitOrch(UnchainedTasks(enabled), "run_script")
    /\ now = 1
    /\ nruns = 1
    /\ args \in TaskRunArguments
    /\ audit \in {<< >>, <<EarlierRun>>}
    /\ am = NewAuditManager
    /\ swc = NewScriptWorker
    /\ file = NoFile
    /\ target = EmptyTable
    /\ conn = ClosedConn
    /\ closes = << >>
    /\ e = None

NextUnchained ==
    \/ SkipDisabled
    \/ BeginTask
    \/ InsertAuditEtlRunsRecord
    \/ SetComments
    \/ GetData
    \/ UploadNoFile
    \/ CreateTempTable
    \/ CopyFrom
    \/ Merge
    \/ DropTempTable
    \/ Commit
    \/ UpdateEtlRunsTableRecord
    \/ LoopEnd
    \/ Finally

SpecUnchained == InitUnchained /\ [][NextUnchained]_vars

(***************************************************************************)
(* PostgresConnector.run_query, called as the function of a task with      *)
(* every combination of its arguments.                                     *)
(***************************************************************************)
\* query, get_result and commit of a call: a SELECT, or a statement that writes
\* the row of a key (INSERT, UPDATE, DDL)
QueryArguments ==
    {[query |-> "select", key |-> 1, val |-> 1, get_result |-> g, commit |-> c] :
        g \in BOOLEAN, c \in BOOLEAN}
    \cup
    {[query |-> "write", key |-> k, val |-> v, get_result |-> g, commit |-> c] :
        k \in Keys, v \in Vals, g \in BOOLEAN, c \in BOOLEAN}

\* The rows the transaction sees after cur.execute(query, params)
Executed(table, a, ts) ==
    IF a.query = "write"
    THEN [table EXCEPT ![a.key] = [val |-> a.val, etl_runs_key |-> Null,
                                   created_at |-> ts, modified_at |-> ts]]
    ELSE table

\* 1. "with self.get_connection(...) as conn", "with conn.cursor() as cur",
\* 1.2. cur.execute(query, params); an error of the backend leaves the with block,
\* which rolls back, and is raised again to the caller
RunQueryExecute ==
    /\ Calling("run_query_call")
    /\ conn.step = "closed"
    /\ \/ /\ conn' = [step |-> "executed", temp |-> None, work |-> Executed(target, args, now)]
          /\ UNCHANGED <<orchVars, e>>
       \/ /\ conn' = ClosedConn
          /\ TaskRaised
          /\ e' = "run_query"
    /\ UNCHANGED <<now, nruns, args, audit, am, swc, file, target, closes>>

\* 1.3. "if commit: conn.commit()"
RunQueryCommit ==
    /\ Calling("run_query_call")
    /\ conn.step = "executed"
    /\ conn' = [conn EXCEPT !.step = "fetched"]
    /\ target' = (IF args.commit THEN conn.work ELSE target)
    /\ UNCHANGED <<orchVars, now, nruns, args, audit, am, swc, file, closes, e>>

\* 1.5. the return leaves "with ... as conn" without an exception: the connection's
\* context manager commits the transaction
RunQueryReturn ==
    /\ Calling("run_query_call")
    /\ conn.step = "fetched"
    /\ target' = conn.work
    /\ conn' = ClosedConn
    /\ TaskReturned
    /\ UNCHANGED <<now, nruns, args, audit, am, swc, file, closes, e>>

\* A task list of one task whose function is run_query with its arguments bound.
QueryTasks ==
    <<[task_name |-> "run_query", function |-> "run_query_call", depends_on |-> None,
       is_enabled |-> TRUE, retries |-> 0]>>

\* The target table holds nothing or a row written on day 0.
InitQuery ==
    /\ InitOrch(QueryTasks, "run_script")
    /\ now \in 1..MaxNow
    /\ nruns = 1
    /\ args \in QueryArguments
    /\ audit = << >>
    /\ am = NewAuditManager
    /\ swc = NewScriptWorker
    /\ file = NoFile
    /\ target \in {EmptyTable} \cup
                  {[EmptyTable EXCEPT ![k] = [val |-> v, etl_runs_key |-> Null,
                                              created_at |-> 0, modified_at |-> 0]] :
                      k \in Keys, v \in Vals}
    /\ conn = ClosedConn
    /\ closes = << >>
    /\ e = None

NextQuery ==
    \/ BeginTask
    \/ RunQueryExecute
    \/ RunQueryCommit
    \/ RunQueryReturn
    \/ LoopEnd
    \/ Finally

SpecQuery == InitQuery /\ [][NextQuery]_vars

(***************************************************************************)
(* run_script.main from its first statement, with the failures of its own  *)
(* statements: the initialization before the try, and the statements of    *)
(* the loop that no try of the retry loop covers.                          *)
(***************************************************************************)
\* 1. Initialization: parse_arguments, ScriptFactory, EmailManager, init_tasks. They
\* stand before the try: an exception of theirs ends the process with exit status 1.
Initialize ==
    /\ pc = "init"
    /\ \/ /\ pc' = "loop"
          /\ UNCHANGED <<exit_code, e>>
       \/ /\ pc' = "done"
          /\ exit_code' = 1
          /\ e' = "initialization"
    /\ UNCHANGED <<runner, tasks, idx, attempt, task_passed_finally, success,
                   success_registry, report, calls, final_errors>>
    /\ UNCHANGED <<now, nruns, args, audit, am, swc, file, target, conn, closes>>

\* "except Exception as e" of main: a statement of the loop outside the try of the
\* retry loop raised; success = False, then the finally block.
CriticalError ==
    /\ AtTask \/ pc = "retry"
    /\ success' = FALSE
    /\ pc' = "finally"
    /\ e' = "main"
    /\ UNCHANGED <<runner, tasks, idx, attempt, task_passed_finally,
                   success_registry, report, calls, exit_code, final_errors>>
    /\ UNCHANGED <<now, nruns, args, audit, am, swc, file, target, conn, closes>>

InitMain ==
    /\ runner = "run_script"
    /\ tasks \in GenericTaskLists
    /\ pc = "init"
    /\ idx = 1
    /\ attempt = 0
    /\ task_passed_finally = FALSE
    /\ success = TRUE
    /\ success_registry = {}
    /\ report = <<>>
    /\ calls = [i \in 1..Len(tasks) |-> <<>>]
    /\ exit_code = Null
    /\ final_errors = {}
    /\ now = 0
    /\ nruns = 1
    /\ args = CHOOSE a \in RunArguments : TRUE
    /\ audit = << >>
    /\ am = NewAuditManager
    /\ swc = NewScriptWorker
    /\ file = NoFile
    /\ target = EmptyTable
    /\ conn = ClosedConn
    /\ closes = << >>
    /\ e = None

NextMain ==
    \/ Initialize
    \/ SkipDisabled
    \/ SkipDependency
    \/ BeginTask
    \/ InvokeStub
    \/ CriticalError
    \/ LoopEnd
    \/ Finally

SpecMain == InitMain /\ [][NextMain]_vars

\* main is one sequential thread: while a statement is left to execute and the task
\* functions, time.sleep(5), the e-mail and the log calls return or raise, the next
\* step is taken.
SpecMainFair == SpecMain /\ WF_vars(NextMain)

(***************************************************************************)
(* parse_arguments, called by main with every command line.                *)
(***************************************************************************)
\* largest number of digits in a config token
MaxDigits == 2
\* largest number of arguments after the first two
MaxExtraArguments == 4

\* An argument is read as one of three shapes: dddd-dd-dd with the numbers of its
\* year, month and day; "config=" followed by a letter and digits; anything else.
NoToken == [shape |-> "none", letter |-> None, digits |-> << >>, ymd |-> << >>]

DateTokens ==
    {[shape |-> "date", letter |-> None, digits |-> << >>, ymd |-> <<y, m, d>>] :
        y \in {2024}, m \in {2, 13}, d \in {29, 30}}

RECURSIVE DigitStrings(_)
DigitStrings(n) ==
    IF n = 0 THEN {<< >>}
    ELSE DigitStrings(n - 1) \cup {Append(ds, c) : ds \in DigitStrings(n - 1), c \in {0, 3}}

ConfigTokens ==
    {[shape |-> "config", letter |-> l, digits |-> ds, ymd |-> << >>] :
        l \in {"F", "I"}, ds \in DigitStrings(MaxDigits)}

OtherToken == [shape |-> "other", letter |-> None, digits |-> << >>, ymd |-> << >>]

Tokens == DateTokens \cup ConfigTokens \cup {OtherToken}

\* sys.argv[1:]: no argument, one, or two followed by up to MaxExtraArguments more
CommandLines ==
    {<< >>} \cup {<<t>> : t \in Tokens}
    \cup {<<t1, t2>> \o [i \in 1..n |-> OtherToken] :
            t1 \in Tokens, t2 \in Tokens, n \in 0..MaxExtraArguments}

\* Days of a month of the proleptic Gregorian calendar
DaysInMonth(y, m) ==
    IF m = 2 THEN (IF y % 4 = 0 /\ (y % 100 # 0 \/ y % 400 = 0) THEN 29 ELSE 28)
    ELSE IF m \in {4, 6, 9, 11} THEN 30 ELSE 31

\* datetime.datetime.strptime(arg1, "%Y-%m-%d") returns
Strptime(t) ==
    /\ t.shape = "date"
    /\ t.ymd[2] \in 1..12
    /\ t.ymd[3] \in 1..DaysInMonth(t.ymd[1], t.ymd[2])

\* re.match(r"^config=F\d+$", arg2)
ConfigMatch(t) == t.shape = "config" /\ t.letter = "F" /\ Len(t.digits) >= 1

\* int(x) of a string of decimal digits
RECURSIVE IntOf(_)
IntOf(ds) ==
    IF ds = << >> THEN 0
    ELSE 10 * IntOf(SubSeq(ds, 1, Len(ds) - 1)) + ds[Len(ds)]

\* The largest index of sys.argv read when two or more arguments are passed
LastArgumentRead == 5

\* parse_arguments(settings) on the arguments argv: the exception raised, if any,
\* and the tuple returned
ParsedArguments(argv, settings) ==
    LET default == [raised |-> None, forced_sdt |-> NoToken, load_type |-> settings.load_type,
                    max_days_to_load |-> settings.max_days_to_load]
    IN  IF Len(argv) = 0 THEN default
        ELSE IF Len(argv) = 1 THEN [default EXCEPT !.raised = "ValueError"]
        ELSE IF Len(argv) < LastArgumentRead THEN [default EXCEPT !.raised = "IndexError"]
        ELSE IF ~Strptime(argv[1]) THEN [default EXCEPT !.raised = "ValueError"]
        ELSE IF ~ConfigMatch(argv[2]) THEN [default EXCEPT !.raised = "ValueError"]
        ELSE [raised |-> None, forced_sdt |-> argv[1], load_type |-> "F",
              max_days_to_load |-> IF argv[2].digits = << >>
                                   THEN settings.max_days_to_load
                                   ELSE IntOf(argv[2].digits)]

\* "forced_sdt, load_type, max_days_to_load = parse_arguments(settings)" of main: it
\* stands before the try, an exception of it ends the process with exit status 1.
ParseArguments ==
    /\ pc = "init"
    /\ LET r == ParsedArguments(args.argv, args.settings)
       IN  IF r.raised # None
           THEN /\ pc' = "done"
                /\ exit_code' = 1
                /\ e' = r.raised
                /\ args' = args
           ELSE /\ pc' = "loop"
                /\ args' = [args EXCEPT !.forced_sdt = r.forced_sdt,
                                        !.load_type = r.load_type,
                                        !.max_days_to_load = r.max_days_to_load]
                /\ UNCHANGED <<exit_code, e>>
    /\ UNCHANGED <<runner, tasks, idx, attempt, task_passed_finally, success,
                   success_registry, report, calls, final_errors>>
    /\ UNCHANGED <<now, nruns, audit, am, swc, file, target, conn, closes>>

\* The command line, the defaults of the settings module, and the three local
\* variables of parse_arguments, all None at its start.
InitArguments ==
    /\ runner = "run_script"
    /\ tasks = << >>
    /\ pc = "init"
    /\ idx = 1
    /\ attempt = 0
    /\ task_passed_finally = FALSE
    /\ success = TRUE
    /\ success_registry = {}
    /\ report = << >>
    /\ calls = << >>
    /\ exit_code = Null
    /\ final_errors = {}
    /\ now = 0
    /\ nruns = 1
    /\ \E a \in CommandLines, l \in {"F", "I"}, m \in 0..MaxDays :
          args = [argv |-> a, settings |-> [load_type |-> l, max_days_to_load |-> m],
                  forced_sdt |-> NoToken, load_type |-> None, max_days_to_load |-> Null]
    /\ audit = << >>
    /\ am = NewAuditManager
    /\ swc = NewScriptWorker
    /\ file = NoFile
    /\ target = EmptyTable
    /\ conn = ClosedConn
    /\ closes = << >>
    /\ e = None

NextArguments ==
    \/ ParseArguments
    \/ LoopEnd
    \/ Finally

SpecArguments == InitArguments /\ [][NextArguments]_vars

(***************************************************************************)
(* Incremental runs of the project after a first full load of the target.  *)
(***************************************************************************)
\* The audit record that a Complete full load from a forced start of day 0 or day
\* MaxNow leaves, for a window of no day and of MaxDays days: get_data set
\* data_max_date to edt when rows were found and to sdt when none were.
FirstFullLoads ==
    {[etl_runs_key |-> 1, load_type |-> "F", target_table |-> TargetTable,
      start_load_date |-> s, end_load_date |-> FullEnd(s, m), data_min_date |-> s,
      data_max_date |-> (IF n > 0 THEN FullEnd(s, m) ELSE s), status |-> "Complete",
      num_of_records |-> n, prev_max_date |-> Null] :
        s \in {0, MaxNow}, m \in {0, MaxDays}, n \in 0..1}

InitIncremental ==
    /\ InitOrch(CodedTasks, "run_script")
    /\ now \in 0..MaxNow
    /\ nruns = 1
    /\ args \in {a \in RunArguments : a.load_type = "I" /\ a.delete_output}
    /\ audit \in {<<r>> : r \in FirstFullLoads}
    /\ am = NewAuditManager
    /\ swc = NewScriptWorker
    /\ file = NoFile
    /\ target = EmptyTable
    /\ conn = ClosedConn
    /\ closes = << >>
    /\ e = None

NextIncremental ==
    \/ BeginTask
    \/ InsertAuditEtlRunsRecord
    \/ SetComments
    \/ GetData
    \/ UploadNoFile
    \/ CreateTempTable
    \/ CopyFrom
    \/ Merge
    \/ DropTempTable
    \/ Commit
    \/ UpdateEtlRunsTableRecord
    \/ LoopEnd
    \/ Finally
    \/ StartRun

SpecIncremental == InitIncremental /\ [][NextIncremental]_vars

TypeOK ==
    /\ pc \in {"init", "loop", "retry", "finally", "done"}
    /\ idx \in 1..(Len(tasks) + 1)
    /\ attempt \in 0..(MaxRetries + 1)
    /\ success \in BOOLEAN
    /\ e \in {None, "stub", "run_query", "ValueError", "AttributeError", "get_data",
              "upload_to_pg", "update_etl_runs_table_record", "main", "initialization",
              "IndexError"}
    /\ final_errors \subseteq {"email_error", "maintenance_error"}

(***************************************************************************)
(* Properties of the orchestrator.                                         *)
(***************************************************************************)
\* Task i failed on each of its retries + 1 attempts.
Exhausted(i) ==
    /\ Len(calls[i]) = tasks[i].retries + 1
    /\ \A k \in 1..Len(calls[i]) : calls[i][k] = "raised"

\* The function of task i returned without exception.
Returned(i) == calls[i] # <<>> /\ calls[i][Len(calls[i])] = "returned"

\* C1: once a task has failed on all of its retries + 1 attempts, the function
\* of no later task of the list is invoked in that run.
C1_HaltAfterExhaustedRetries ==
    \A i \in 1..Len(tasks) : \A j \in 1..Len(tasks) :
        (i < j /\ Exhausted(i)) => calls[j] = <<>>

\* A task with retries = 0 failed once, a later enabled unconditional task was never invoked.
C1_Witness ==
    /\ pc = "done"
    /\ \E i \in 1..Len(tasks) : \E j \in 1..Len(tasks) :
        /\ i < j
        /\ tasks[i].retries = 0
        /\ Exhausted(i)
        /\ tasks[j].is_enabled
        /\ tasks[j].depends_on = None
        /\ calls[j] = <<>>

\* C2: the function of a task is invoked at most retries + 1 times, no attempt
\* follows one that returned, and a task whose function returned is recorded
\* SUCCESS and never FAILED.
C2_RetryUntilSuccess ==
    \A i \in 1..Len(tasks) :
        /\ Len(calls[i]) <= tasks[i].retries + 1
        /\ \A k \in 1..(Len(calls[i]) - 1) : calls[i][k] = "raised"
        /\ (Returned(i) /\ runner = "run_script") => StatusesOf(i) = {"SUCCESS"}
        /\ Returned(i) => tasks[i].task_name \in success_registry

\* A task with retries = 2 failed twice, then returned: 3 invocations, SUCCESS.
C2_Witness ==
    \E i \in 1..Len(tasks) :
        /\ runner = "run_script"
        /\ tasks[i].retries = 2
        /\ calls[i] = <<"raised", "raised", "returned">>
        /\ StatusesOf(i) = {"SUCCESS"}

\* C3: the function of a task that depends on T is invoked only if the function
\* of a task named T returned earlier in the run (T is in the success registry).
C3_DependencyGate ==
    \A i \in 1..Len(tasks) :
        (calls[i] # <<>> /\ tasks[i].depends_on # None) =>
            /\ tasks[i].depends_on \in success_registry
            /\ \E j \in 1..(i - 1) :
                 tasks[j].task_name = tasks[i].depends_on /\ Returned(j)

\* One dependent task ran after its dependency returned, and the loop went past a
\* task that depends on a task listed later without invoking it.
C3_Witness ==
    /\ \E i \in 1..Len(tasks) : \E j \in 1..Len(tasks) :
        /\ tasks[i].depends_on = tasks[j].task_name
        /\ Returned(j)
        /\ calls[i] # <<>>
    /\ \E i \in 1..Len(tasks) : \E j \in 1..Len(tasks) :
        /\ i < j
        /\ tasks[i].is_enabled
        /\ tasks[i].depends_on = tasks[j].task_name
        /\ idx > j
        /\ Returned(j)
        /\ calls[i] = <<>>

\* Task i is enabled and names the disabled task j as its dependency.
DependsOnDisabled(i) ==
    /\ tasks[i].is_enabled
    /\ \E j \in 1..Len(tasks) :
        tasks[j].task_name = tasks[i].depends_on /\ ~tasks[j].is_enabled

\* C4: in run_script.main a task whose depends_on names a disabled task is
\* recorded SKIPPED without being invoked, and the run ends as a failure.
C4_DependsOnDisabledSkipped ==
    \A i \in 1..Len(tasks) :
        (runner = "run_script" /\ DependsOnDisabled(i)) =>
            /\ calls[i] = <<>>
            /\ idx > i => (StatusesOf(i) = {"SKIPPED"} /\ ~success)
            /\ (idx > i /\ pc = "done") => exit_code = 1

\* The run ended after the loop went past a task that depends on a disabled task.
C4_Witness ==
    /\ runner = "run_script"
    /\ pc = "done"
    /\ \E i \in 1..Len(tasks) :
        /\ DependsOnDisabled(i)
        /\ idx > i
        /\ StatusesOf(i) = {"SKIPPED"}
        /\ \A j \in 1..Len(tasks) : ~Exhausted(j)

(***************************************************************************)
(* Properties of the window, the audit record and the loader.              *)
(***************************************************************************)
\* The audit record inserted by the current run.
OwnRecord == audit[am.etl_runs_key]

\* insert_audit_etl_runs_record has returned in the current run.
Opened == am.etl_runs_key # Null

\* C5: every window written to an audit record has start_load_date <= end_load_date.
C5_WindowOrdered ==
    \A k \in 1..Len(audit) : audit[k].start_load_date <= audit[k].end_load_date

CommittedCloses == {i \in 1..Len(closes) : closes[i].committed}

\* C8: the audit record of a run is updated at most once, under every retries
\* setting of the tasks.
C8_StatusChangesOnce == Cardinality(CommittedCloses) <= 1

\* C9: when Open succeeded and a later task exhausted its retries, a Close with
\* status Error has been attempted by the end of the run.
C9_ErrorCloseAttempted ==
    (/\ pc = "done"
     /\ Returned(1)
     /\ \E i \in 2..Len(tasks) : Exhausted(i))
        => \E i \in 1..Len(closes) : closes[i].status = "Error"

\* C10: the target table changes only in the step in which upload_to_dwh
\* returns; a call of it that raises, at whatever step of upload_to_pg, leaves
\* the rows of the target table as they were.
C10_FailedUploadCommitsNothing ==
    [][/\ (Calling("upload_to_dwh") /\ calls'[idx] = Append(calls[idx], "raised"))
            => target' = target
       /\ target' # target
            => (Calling("upload_to_dwh") /\ calls'[idx] = Append(calls[idx], "returned"))]_vars

\* An upload of a non-empty batch raised in a run that found rows of an earlier
\* run in the target table.
C10_Witness ==
    /\ nruns = 2
    /\ target # EmptyTable
    /\ Len(tasks) >= 4
    /\ calls[4] = <<"raised">>
    /\ am.num_of_records >= 1
    /\ \E i \in 1..Len(closes) : closes[i].status = "Error"

\* Key of the latest Complete record of the target among the first n rows, 0 when none.
LastCompleteKey(n) ==
    LET complete == {k \in 1..n : audit[k].target_table = TargetTable /\ audit[k].status = "Complete"}
    IN  IF complete = {} THEN 0 ELSE CHOOSE k \in complete : \A j \in complete : j <= k

\* The record that the previous-max-date query of the current run read, 0 when none.
MarkKey == LastCompleteKey(am.etl_runs_key - 1)

\* C11: a run that extracted zero rows and was closed Complete has data_min_date =
\* data_max_date = start_load_date, and the next incremental run of the target
\* starts where the empty run started, with and without increment_sdt.
C11_EmptyRunKeepsMark ==
    (Opened /\ args.load_type = "I" /\ MarkKey # 0 /\ audit[MarkKey].num_of_records = 0) =>
        /\ audit[MarkKey].data_min_date = audit[MarkKey].start_load_date
        /\ audit[MarkKey].data_max_date = audit[MarkKey].start_load_date
        /\ am.sdt = audit[MarkKey].start_load_date

(***************************************************************************)
(* Properties of the final status of a run.                                *)
(***************************************************************************)
\* The loop reached the enabled task i and left it without invoking its function:
\* its dependency was not met.
DependencySkipped(i) ==
    /\ tasks[i].is_enabled
    /\ calls[i] = <<>>
    /\ i < idx \/ (i = idx /\ pc \in {"finally", "done"})

\* C12 as stated: a finished run exits 0 exactly when no task exhausted its retries.
C12_SuccessIffNoExhaustion ==
    pc = "done" => (exit_code = 0 <=> ~(\E i \in 1..Len(tasks) : Exhausted(i)))

\* C12 as amended: a finished run exits 0 exactly when no task exhausted its
\* retries and no task was skipped for an unmet dependency.
C12_SuccessIffNoExhaustionNoSkip ==
    pc = "done" =>
        (exit_code = 0 <=> /\ ~(\E i \in 1..Len(tasks) : Exhausted(i))
                           /\ ~(\E i \in 1..Len(tasks) : DependencySkipped(i)))

\* A run with a disabled task and a task that returned on a retry exits 0, no task
\* exhausted or skipped for its dependency.
C12_Witness ==
    /\ pc = "done"
    /\ exit_code = 0
    /\ \E i \in 1..Len(tasks) : ~tasks[i].is_enabled
    /\ \E i \in 1..Len(tasks) : Returned(i) /\ Len(calls[i]) > 1

\* C13: the function of a disabled task is never invoked, its name never enters
\* the success registry, run_script.main records it DISABLED, and a finished run
\* whose tasks are all either disabled or returned is successful and exits 0.
C13_DisabledTask ==
    /\ \A i \in 1..Len(tasks) :
          ~tasks[i].is_enabled =>
              /\ calls[i] = <<>>
              /\ tasks[i].task_name \notin success_registry
              /\ (runner = "run_script" /\ i < idx) => StatusesOf(i) = {"DISABLED"}
    /\ (pc = "done" /\ \A i \in 1..Len(tasks) : ~tasks[i].is_enabled \/ Returned(i))
          => (success /\ exit_code = 0)

\* A disabled task was passed over, a later task returned, the run exits 0.
C13_Witness ==
    /\ pc = "done"
    /\ runner = "run_script"
    /\ exit_code = 0
    /\ \E i \in 1..Len(tasks) : \E j \in 1..Len(tasks) :
          /\ i < j
          /\ ~tasks[i].is_enabled
          /\ StatusesOf(i) = {"DISABLED"}
          /\ Returned(j)

\* Task i is enabled and depends on nothing or on a task that returned before it.
Runnable(i) ==
    /\ tasks[i].is_enabled
    /\ \/ tasks[i].depends_on = None
       \/ \E k \in 1..(i - 1) : tasks[k].task_name = tasks[i].depends_on /\ Returned(k)

\* C14 as stated: in run_script.main, after a task was skipped for its dependency,
\* the function of every later runnable task has been invoked when the run ends.
C14_LaterTasksAllExecuted ==
    (pc = "done" /\ runner = "run_script") =>
        \A j \in 1..Len(tasks) : \A i \in 1..Len(tasks) :
            (j < i /\ "SKIPPED" \in StatusesOf(j) /\ Runnable(i)) => calls[i] # <<>>

\* C14 as amended: ... of every later runnable task that no task exhausting its
\* retries precedes has been invoked when the run ends.
C14_LaterTasksExecutedUnlessHalted ==
    (pc = "done" /\ runner = "run_script") =>
        \A j \in 1..Len(tasks) : \A i \in 1..Len(tasks) :
            (/\ j < i
             /\ "SKIPPED" \in StatusesOf(j)
             /\ Runnable(i)
             /\ ~(\E m \in 1..(i - 1) : Exhausted(m))) => calls[i] # <<>>

\* A task returned, the next was skipped for its dependency, and a later task that
\* depends on the first was invoked.
C14_Witness ==
    /\ pc = "done"
    /\ runner = "run_script"
    /\ \E k \in 1..Len(tasks) : \E j \in 1..Len(tasks) : \E i \in 1..Len(tasks) :
          /\ k < j
          /\ j < i
          /\ Returned(k)
          /\ "SKIPPED" \in StatusesOf(j)
          /\ tasks[i].depends_on = tasks[k].task_name
          /\ calls[i] # <<>>

(***************************************************************************)
(* Properties of the window of a full load and of a load without history.  *)
(***************************************************************************)
\* The previous max date that the current run's window was calculated from.
MarkRead == PrevMaxDate(SubSeq(audit, 1, am.etl_runs_key - 1), TargetTable)

\* The task function about to be called is insert_audit_etl_runs_record with these settings.
OpeningWith(load_type, forced, prev) ==
    /\ Calling("insert_audit_etl_runs_record")
    /\ args.load_type = load_type
    /\ (args.forced_sdt # Null) = forced
    /\ (PrevMaxDate(audit, TargetTable) # Null) = prev

\* C15: a full load with a forced start date has sdt = start_load_date = the
\* forced date, whatever the previous max date is.
C15_ForcedStartWins ==
    (Opened /\ args.load_type = "F" /\ args.forced_sdt # Null) =>
        /\ am.sdt = args.forced_sdt
        /\ OwnRecord.start_load_date = args.forced_sdt

\* A forced full load opened on a history whose previous max date differs from the forced date.
C15_Witness ==
    /\ Opened
    /\ args.load_type = "F"
    /\ args.forced_sdt # Null
    /\ MarkRead # Null
    /\ MarkRead # args.forced_sdt
    /\ am.sdt = args.forced_sdt

\* C16: a full load without a forced start date starts at the previous max date,
\* and every full load that opened its record ends exactly max_days_to_load days
\* after its start, also when that lies after now.
C16_FullWindow ==
    (Opened /\ args.load_type = "F") =>
        /\ args.forced_sdt = Null => (MarkRead # Null /\ am.sdt = MarkRead)
        /\ am.edt = am.sdt + args.max_days_to_load
        /\ OwnRecord.start_load_date = am.sdt
        /\ OwnRecord.end_load_date = am.sdt + args.max_days_to_load

\* A full load without a forced start whose window ends in the future.
C16_Witness ==
    /\ Opened
    /\ args.load_type = "F"
    /\ args.forced_sdt = Null
    /\ am.sdt = MarkRead
    /\ am.edt > now
    /\ OwnRecord.end_load_date > now

\* C17: a full load with neither a forced start date nor a previous max date makes
\* the calculator raise its ValueError (unless a statement sent to the database
\* before it raised); insert_audit_etl_runs_record then raises, inserts no record
\* and assigns no etl_runs_key.
C17_FullModeWithoutStartFails ==
    [][OpeningWith("F", FALSE, FALSE) =>
          /\ e' \in {"ValueError", "run_query"}
          /\ CalculateEtlWindow(am, Null, now, args).raised
          /\ audit' = audit
          /\ am'.etl_runs_key = Null
          /\ calls'[idx] = Append(calls[idx], "raised")]_vars

\* A full load without forced start failed to open on an empty audit table.
C17_Witness ==
    /\ args.load_type = "F"
    /\ args.forced_sdt = Null
    /\ audit = << >>
    /\ calls[1] = <<"raised">>
    /\ e = "ValueError"
    /\ am.etl_runs_key = Null
    /\ pc = "done"
    /\ exit_code = 1

\* C18: an incremental load without a previous max date makes the calculator raise.
C18_IncrementalWithoutHistoryRaises ==
    OpeningWith("I", FALSE, FALSE) => CalculateEtlWindow(am, Null, now, args).raised

(***************************************************************************)
(* Properties of upload_to_dwh.                                            *)
(***************************************************************************)
\* The call of upload_to_dwh that is under way ends in this step by an exception.
UploadRaises == Calling("upload_to_dwh") /\ calls'[idx] = Append(calls[idx], "raised")

\* C19: when upload_to_pg raises inside upload_to_dwh, the worker's status is Error,
\* one update of the run's audit record to Error is attempted, and the exception
\* the orchestrator catches is the one of upload_to_pg, also when the update raised.
C19_UploadErrorReraised ==
    [][UploadRaises =>
          /\ swc'.status = "Error"
          /\ Len(closes') = Len(closes) + 1
          /\ closes'[Len(closes')].status = "Error"
          /\ closes'[Len(closes')].etl_runs_key = am.etl_runs_key
          /\ e' = "upload_to_pg"]_vars

\* The upload raised, the update to Error raised too and left the record In
\* Progress, and the orchestrator caught the exception of upload_to_pg.
C19_Witness ==
    /\ pc = "done"
    /\ Len(tasks) >= 4
    /\ calls[4] = <<"raised">>
    /\ Len(closes) = 1
    /\ closes[1].status = "Error"
    /\ ~closes[1].committed
    /\ Opened
    /\ OwnRecord.status = "In Progress"
    /\ e = "upload_to_pg"

\* C20: after an extraction of zero rows there is no file, and upload_to_dwh
\* leaves the connection, the target table and the audit table untouched, calls
\* no audit update, sets the worker's status to Complete and returns; the task is
\* recorded SUCCESS.
C20_EmptyBatchNoStatements ==
    [][(Calling("upload_to_dwh") /\ swc.num_of_records = 0) =>
          /\ ~file.exists
          /\ conn' = conn
          /\ target' = target
          /\ audit' = audit
          /\ closes' = closes
          /\ swc'.status = "Complete"
          /\ calls'[idx] = Append(calls[idx], "returned")
          /\ \E k \in 1..Len(report') : report'[k].task = idx /\ report'[k].status = "SUCCESS"]_vars

\* A run that extracted nothing, whose upload task returned and which ended with exit code 0.
C20_Witness ==
    /\ pc = "done"
    /\ exit_code = 0
    /\ swc.num_of_records = 0
    /\ swc.status = "Complete"
    /\ Len(tasks) >= 4
    /\ calls[4] = <<"returned">>
    /\ ~file.exists
    /\ Len(closes) = 1
    /\ closes[1].status = "Complete"

(***************************************************************************)
(* Properties of upload_to_pg and of the MERGE.                            *)
(***************************************************************************)
\* The call of upload_to_dwh that is under way returns in this step.
UploadReturns == Calling("upload_to_dwh") /\ calls'[idx] = Append(calls[idx], "returned")

\* The steps of upload_to_pg in the order of its statements.
StepOrder == <<"closed", "created", "copied", "merged", "dropped">>

\* C21: upload_to_pg works on one connection that goes through create temporary
\* table, copy, MERGE, drop, commit in this order, each once; the rows merged are
\* those of the file; the target table changes only at the commit, which follows
\* the drop, and an upload of a file returns only by that commit.
C21_UploadSequence ==
    [][/\ conn'.step # conn.step =>
            \/ conn'.step = "closed"
            \/ \E n \in 1..4 : conn.step = StepOrder[n] /\ conn'.step = StepOrder[n + 1]
       /\ (conn.step = "closed" /\ conn'.step = "created") =>
            (conn'.work = target /\ conn'.temp.rows = EmptyBatch)
       /\ (conn.step = "created" /\ conn'.step = "copied") =>
            (conn'.work = conn.work /\ conn'.temp.rows = file.rows)
       /\ (conn.step = "copied" /\ conn'.step = "merged") =>
            conn'.work = MergeInto(target, [rows |-> file.rows, etl_runs_key |-> am.etl_runs_key], now)
       /\ (conn.step = "merged" /\ conn'.step = "dropped") => conn'.work = conn.work
       /\ target' # target => (conn.step = "dropped" /\ conn'.step = "closed" /\ UploadReturns)
       /\ (UploadReturns /\ file.exists) =>
            (conn.step = "dropped" /\ conn'.step = "closed" /\ target' = conn.work)]_vars

\* An upload of a non-empty batch returned and its rows are in the target table.
C21_Witness ==
    /\ Len(tasks) >= 4
    /\ calls[4] = <<"returned">>
    /\ swc.num_of_records >= 1
    /\ swc.status = "Complete"
    /\ conn = ClosedConn
    /\ \E k \in Keys : target[k].etl_runs_key = am.etl_runs_key

\* C22: when the upload of a batch returns, every key of the batch has a row in the
\* target table with the batch's value, the run's etl_runs_key and modified_at =
\* now; such a row keeps its created_at when the key was in the table and has
\* created_at = now when it was not; the rows of the other keys are unchanged.
C22_MergeResult ==
    [][(UploadReturns /\ file.exists) =>
          \A k \in Keys :
              IF k \in DOMAIN file.rows
              THEN /\ target'[k] # NoRow
                   /\ target'[k].val = file.rows[k]
                   /\ target'[k].etl_runs_key = am.etl_runs_key
                   /\ target'[k].modified_at = now
                   /\ target'[k].created_at =
                          (IF target[k] # NoRow THEN target[k].created_at ELSE now)
              ELSE target'[k] = target[k]]_vars

\* The second run, on a later day, changed the value of a row of the first run
\* and left another row of the first run as it was.
C22_Witness ==
    /\ nruns = 2
    /\ Len(tasks) >= 4
    /\ calls[4] = <<"returned">>
    /\ file.exists
    /\ \E k \in Keys : \E j \in Keys :
          /\ k \in DOMAIN file.rows
          /\ target[k].val = 2
          /\ target[k].etl_runs_key = am.etl_runs_key
          /\ target[k].created_at < target[k].modified_at
          /\ j \notin DOMAIN file.rows
          /\ target[j] # NoRow
          /\ target[j].etl_runs_key < am.etl_runs_key

(***************************************************************************)
(* Properties of the audit table.                                          *)
(***************************************************************************)
\* Keys of the records written before the current run opened its own that are
\* Complete records of the target table.
EarlierComplete ==
    {k \in 1..(am.etl_runs_key - 1) :
        audit[k].target_table = TargetTable /\ audit[k].status = "Complete"}

\* C23: the previous max date of a run that opened its record is the data_max_date
\* of the Complete record of the target table with the largest key, and nothing
\* when the target table has no Complete record; records with another status or
\* of another target table do not count, whatever their keys.
C23_MarkFromLatestComplete ==
    Opened =>
        IF EarlierComplete = {}
        THEN am.prev_max_date = Null
        ELSE \E k \in EarlierComplete :
                /\ \A j \in EarlierComplete : j <= k
                /\ am.prev_max_date = audit[k].data_max_date

\* The mark was read from record 1 although an Error record of the target table and
\* a Complete record of the other table, with other dates, are more recent.
C23_Witness ==
    /\ Opened
    /\ am.etl_runs_key = 4
    /\ audit[1].target_table = TargetTable
    /\ audit[1].status = "Complete"
    /\ audit[2].target_table = TargetTable
    /\ audit[2].status = "Error"
    /\ audit[3].target_table = OtherTable
    /\ audit[3].status = "Complete"
    /\ audit[2].data_max_date # audit[1].data_max_date
    /\ audit[3].data_max_date # audit[1].data_max_date
    /\ am.prev_max_date = audit[1].data_max_date
    /\ args.load_type = "I"
    /\ am.sdt = audit[1].data_max_date

\* insert_audit_etl_runs_record returns in this step.
OpenReturns ==
    Calling("insert_audit_etl_runs_record") /\ calls'[idx] = Append(calls[idx], "returned")

\* C24: no step removes an audit record; the step in which
\* insert_audit_etl_runs_record returns appends one record, In Progress, with the
\* window and the key the manager holds, and changes no other; every other step
\* appends none and changes at most the record whose key this run's manager holds.
C24_AuditFrame ==
    [][/\ OpenReturns =>
            /\ Len(audit') = Len(audit) + 1
            /\ audit'[Len(audit')].status = "In Progress"
            /\ audit'[Len(audit')].start_load_date = am'.sdt
            /\ audit'[Len(audit')].end_load_date = am'.edt
            /\ audit'[Len(audit')].etl_runs_key = am'.etl_runs_key
            /\ am'.etl_runs_key = Len(audit')
            /\ \A k \in 1..Len(audit) : audit'[k] = audit[k]
       /\ ~OpenReturns =>
            /\ Len(audit') = Len(audit)
            /\ \A k \in 1..Len(audit) :
                  audit'[k] # audit[k] => k = am.etl_runs_key]_vars

\* The second run opened and closed its own record while the record of the first
\* run, which never closed it, is still In Progress.
C24_Witness ==
    /\ nruns = 2
    /\ Len(audit) = 2
    /\ audit[1].status = "In Progress"
    /\ am.etl_runs_key = 2
    /\ audit[2].status = "Complete"
    /\ CommittedCloses # {}

\* C25: update_etl_runs_table_record sends no UPDATE while the manager's
\* etl_runs_key is unset: every UPDATE sent carries a key in its WHERE clause.
C25_NoUpdateWithoutOpen ==
    \A i \in 1..Len(closes) : closes[i].etl_runs_key # Null

(***************************************************************************)
(* Properties of run_query.                                                *)
(***************************************************************************)
\* C26: the committed rows change only in a call of run_query with commit = True;
\* a call with commit = False, with or without get_result, commits nothing; and a
\* call in which the backend raised ends with that exception at the caller.
C26_CommitOnlyOnRequest ==
    [][/\ target' # target => (Calling("run_query_call") /\ args.commit)
       /\ (Calling("run_query_call") /\ conn.step = "closed" /\ conn'.step = "closed") =>
             (calls'[idx] = Append(calls[idx], "raised") /\ e' = "run_query")]_vars

(***************************************************************************)
(* Properties of the exit status and of the report.                        *)
(***************************************************************************)
\* C27: when run_script.main has ended, the exit status is 0 if the initialization
\* went through and success is still True, and 1 otherwise; it is 1 when a task
\* exhausted its retries, when a task was recorded SKIPPED, when a statement of the
\* loop raised outside the retry loop's try and when the initialization raised;
\* the exceptions of the e-mails and of the log maintenance have no part in it.
C27_ExitCode ==
    pc = "done" =>
        /\ exit_code \in {0, 1}
        /\ exit_code = 0 <=> (success /\ e # "initialization")
        /\ (\/ \E i \in 1..Len(tasks) : Exhausted(i)
            \/ \E i \in 1..Len(tasks) : "SKIPPED" \in StatusesOf(i)
            \/ e \in {"main", "initialization"}) => exit_code = 1
        /\ (/\ e \notin {"main", "initialization"}
            /\ \A i \in 1..Len(tasks) : ~Exhausted(i) /\ "SKIPPED" \notin StatusesOf(i))
              => exit_code = 0

\* A run whose tasks returned, one of them on a retry, and whose e-mails and log
\* maintenance both failed: exit status 0.
C27_Witness ==
    /\ pc = "done"
    /\ exit_code = 0
    /\ final_errors = {"email_error", "maintenance_error"}
    /\ e = "stub"
    /\ \E i \in 1..Len(tasks) : Returned(i) /\ Len(calls[i]) > 1

\* Task j names task i in its depends_on, or names a task between them that
\* depends on task i in this way.
RECURSIVE DependsThrough(_, _)
DependsThrough(j, i) ==
    \/ tasks[j].depends_on = tasks[i].task_name
    \/ \E k \in (i + 1)..(j - 1) :
          tasks[j].depends_on = tasks[k].task_name /\ DependsThrough(k, i)

\* C28: when a run has ended after a task exhausted its retries, the report has a
\* FAILED row for that task and a SKIPPED row for every later enabled task that
\* depends on it, directly or through a chain of depends_on.
C28_FailureReport ==
    pc = "done" =>
        \A i \in 1..Len(tasks) :
            Exhausted(i) =>
                /\ "FAILED" \in StatusesOf(i)
                /\ \A j \in (i + 1)..Len(tasks) :
                      (tasks[j].is_enabled /\ DependsThrough(j, i)) => "SKIPPED" \in StatusesOf(j)

(***************************************************************************)
(* Properties of the calculator as a function of the current time.         *)
(***************************************************************************)
\* The values datetime.now(timezone.utc) can have when the window is calculated.
Clock == 0..(MaxNow + MaxDays + 1)

\* C29: for the load type, forced start, previous max date and increment flag of
\* a run that opened its record, the calculator returns the run's sdt at every
\* value of now; in F mode it returns the run's edt at every value of now; in I
\* mode the edt never exceeds sdt + max_days_to_load, is no larger at an earlier
\* now and no smaller at a later one.
C29_StartIndependentOfNow ==
    Opened =>
        \A t \in Clock :
            LET w == CalculateEtlWindow(NewAuditManager, MarkRead, t, args)
            IN  /\ ~w.raised
                /\ w.sdt = am.sdt
                /\ args.load_type = "F" => w.edt = am.edt
                /\ args.load_type = "I" =>
                      /\ w.edt <= am.sdt + args.max_days_to_load
                      /\ t <= now => w.edt <= am.edt
                      /\ t >= now => w.edt >= am.edt

\* An incremental run whose end was lowered to now; at a later now the same
\* inputs give the same start and a later end.
C29_Witness ==
    /\ Opened
    /\ args.load_type = "I"
    /\ am.edt = now
    /\ now < am.sdt + args.max_days_to_load
    /\ \E t \in Clock :
          /\ t > now
          /\ CalculateEtlWindow(NewAuditManager, MarkRead, t, args).sdt = am.sdt
          /\ CalculateEtlWindow(NewAuditManager, MarkRead, t, args).edt > am.edt

(***************************************************************************)
(* Properties of parse_arguments.                                          *)
(***************************************************************************)
\* parse_arguments returned the tuple (forced_sdt, load_type, max_days_to_load).
ParseReturned(forced_sdt, load_type, max_days_to_load) ==
    /\ e = None
    /\ args.forced_sdt = forced_sdt
    /\ args.load_type = load_type
    /\ args.max_days_to_load = max_days_to_load

\* The decimal digits of a number, most significant first.
RECURSIVE Decimal(_)
Decimal(n) == IF n < 10 THEN <<n>> ELSE Append(Decimal(n \div 10), n % 10)

\* The numbers that MaxDigits digits can write.
RECURSIVE NumbersOf(_)
NumbersOf(n) == IF n = 0 THEN {0} ELSE {10 * q + r : q \in NumbersOf(n - 1), r \in 0..9}

\* The digits ds write the number n, with or without leading zeros.
Writes(ds, n) ==
    \E z \in 0..Len(ds) : ds = [i \in 1..z |-> 0] \o Decimal(n)

\* C30: once parse_arguments has run: without arguments it returned (None,
\* settings.load_type, settings.max_days_to_load); with a valid date and a token
\* config=F<N> as the first two of two or more arguments it returned (the date,
\* "F", N); with one argument, an invalid date or another second token it raised
\* ValueError.
C30_ParseArguments ==
    pc # "init" =>
        LET argv == args.argv
        IN  /\ Len(argv) = 0 =>
                  ParseReturned(NoToken, args.settings.load_type, args.settings.max_days_to_load)
            /\ (Len(argv) >= 2 /\ Strptime(argv[1]) /\ ConfigMatch(argv[2])) =>
                  \E n \in NumbersOf(MaxDigits) :
                      Writes(argv[2].digits, n) /\ ParseReturned(argv[1], "F", n)
            /\ (\/ Len(argv) = 1
                \/ Len(argv) >= 2 /\ ~(Strptime(argv[1]) /\ ConfigMatch(argv[2]))) =>
                  e = "ValueError"

(***************************************************************************)
(* Properties of whole runs of the project.                                *)
(***************************************************************************)
\* The rows of the target table that were last written by the current run.
LoadedByRun == {k \in Keys : target[k].etl_runs_key = am.etl_runs_key}

\* C31: when upload_to_dwh has returned in a run whose get_data wrote a non-empty
\* batch file, the rows of that batch are committed in the target table, for
\* every retries setting and both values of delete_output (also on a retry that
\* follows a failed attempt).
C31_SuccessfulLoadLoaded ==
    (/\ Returned(4)
     /\ swc.num_of_records > 0) =>
        /\ Cardinality(LoadedByRun) = swc.num_of_records
        /\ file.exists => \A k \in DOMAIN file.rows : target[k].val = file.rows[k]

\* The current run and the Complete run before it are both incremental loads.
ConsecutiveIncremental ==
    /\ Opened
    /\ args.load_type = "I"
    /\ MarkKey # 0
    /\ audit[MarkKey].load_type = "I"

\* C32: the window of an incremental run that follows a Complete incremental run
\* starts no later than the window of that run ended, with and without
\* increment_sdt, after empty and after non-empty extractions.
C32_NoGapBetweenWindows ==
    ConsecutiveIncremental => OwnRecord.start_load_date <= audit[MarkKey].end_load_date

\* C33: the data_max_date of a Complete incremental run is never smaller than the
\* data_max_date of the Complete run of the target before it (the mark that the
\* run read), also when that mark comes from a full load whose window ended in
\* the future.
C33_MarkNeverDecreases ==
    \A k \in 1..Len(audit) :
        (/\ audit[k].status = "Complete"
         /\ audit[k].load_type = "I"
         /\ LastCompleteKey(k - 1) # 0) =>
            audit[k].data_max_date >= audit[LastCompleteKey(k - 1)].data_max_date

\* Two Complete incremental runs after a full load whose window end, recorded as
\* data_max_date, still lies in the future; the second run moved the mark forward.
C33_Witness ==
    /\ Len(audit) = 3
    /\ \A k \in 1..3 : audit[k].status = "Complete"
    /\ audit[1].data_max_date = audit[1].end_load_date
    /\ audit[1].end_load_date > now
    /\ audit[2].load_type = "I"
    /\ audit[3].load_type = "I"
    /\ audit[2].data_max_date = audit[1].data_max_date
    /\ audit[3].data_max_date > audit[2].data_max_date

\* upload_to_dwh has loaded the CSV of the current run, and the CSV is still there.
LoadedOnce == Returned(4) /\ file.exists

\* The target table after the MERGE of the same CSV once more, at time ts under run key.
LoadedAgain(ts, key) == MergeInto(target, [rows |-> file.rows, etl_runs_key |-> key], ts)

\* C34: after a batch has been loaded, loading the same batch again (now or later,
\* by the same run or by the next one) gives a table with the same keys and the
\* same values; every key keeps its one row, which is updated (created_at kept)
\* and not written as a new row.
C34_ReloadIdempotent ==
    LoadedOnce =>
        \A ts \in now..MaxNow : \A key \in {am.etl_runs_key, am.etl_runs_key + 1} :
            \A k \in Keys :
                /\ (LoadedAgain(ts, key)[k] = NoRow) <=> (target[k] = NoRow)
                /\ LoadedAgain(ts, key)[k].val = target[k].val
                /\ LoadedAgain(ts, key)[k].created_at = target[k].created_at
                /\ k \notin DOMAIN file.rows => LoadedAgain(ts, key)[k] = target[k]

\* The second run loaded a batch of two rows, one over a row of the first run and
\* one new, on a day after which the batch can be loaded again.
C34_Witness ==
    /\ LoadedOnce
    /\ nruns = 2
    /\ now < MaxNow
    /\ DOMAIN file.rows = Keys
    /\ \E k \in Keys : target[k].created_at < target[k].modified_at
    /\ \E k \in Keys : target[k].created_at = now
    /\ \A k \in Keys : target[k].val = file.rows[k] /\ target[k].etl_runs_key = am.etl_runs_key

\* The audit table holds no Complete run of the target.
NoCompleteRun == PrevMaxDate(audit, TargetTable) = Null /\ LastCompleteKey(Len(audit)) = 0

\* C35: in an incremental run that finds no Complete run of the target, every call
\* of insert_audit_etl_runs_record ends by an exception before the INSERT: no
\* audit record is created, etl_runs_key stays unset, and get_data and
\* upload_to_dwh are never called.
C35_IncrementalWithoutHistoryFails ==
    (args.load_type = "I" /\ NoCompleteRun) =>
        /\ \A k \in 1..Len(calls[1]) : calls[1][k] = "raised"
        /\ \A k \in 1..Len(audit) : audit[k].status # "In Progress"
        /\ am.etl_runs_key = Null
        /\ calls[3] = << >>
        /\ calls[4] = << >>

\* An incremental run on an empty audit table: insert_audit_etl_runs_record was
\* called twice and raised at the INSERT text both times, the run ended with exit 1.
C35_Witness ==
    /\ args.load_type = "I"
    /\ audit = << >>
    /\ calls[1] = <<"raised", "raised">>
    /\ e = "AttributeError"
    /\ am.prev_max_date = Null
    /\ pc = "done"
    /\ exit_code = 1

\* Calls of update_etl_runs_table_record(status='Complete') made in the current run,
\* committed or not.
CompleteUpdates == {i \in 1..Len(closes) : closes[i].status = "Complete"}

\* C36: the update of the audit record to Complete is issued only in a run in
\* which insert_etl_runs_record, set_comments, get_data and upload_to_pg each
\* returned; when one of them is disabled, skipped or failed on all its
\* attempts, update_etl_runs_table_record is never called.
C36_CompleteOnlyAfterAllSucceeded ==
    (CompleteUpdates # {} \/ calls[5] # << >>) =>
        \A j \in 1..4 :
            /\ tasks[j].is_enabled
            /\ Returned(j)
            /\ tasks[j].task_name \in success_registry
            /\ StatusesOf(j) = {"SUCCESS"}

\* The record of a run was set to Complete after the extraction had failed once
\* and returned on its retry.
C36_Witness ==
    /\ pc = "done"
    /\ \E i \in CompleteUpdates : closes[i].committed
    /\ OwnRecord.status = "Complete"
    /\ calls[3] = <<"raised", "returned">>
    /\ calls[5] = <<"returned">>
    /\ exit_code = 0

(***************************************************************************)
(* Properties of the success registry and of termination.                  *)
(***************************************************************************)
\* Names of the tasks whose function has returned without exception in this run.
ReturnedNames ==
    {tasks[i].task_name :
        i \in {j \in 1..Len(tasks) : \E k \in 1..Len(calls[j]) : calls[j][k] = "returned"}}

\* C37: after every step of a run the success registry is the set of names of the
\* tasks whose function has returned in this run (no disabled, skipped, failed or
\* not yet reached task is in it), and no step removes a name from it.
C37_RegistryIsReturnedTasks ==
    [][/\ success_registry' = ReturnedNames'
       /\ success_registry \subseteq success_registry']_vars

\* A finished run of run_script.main over a disabled task, a task skipped for its
\* dependency on it, and a task that raised once and returned on its retry.
C37_Witness ==
    /\ runner = "run_script"
    /\ pc = "done"
    /\ Len(tasks) = 3
    /\ ~tasks[1].is_enabled
    /\ DependencySkipped(2)
    /\ calls[3] = <<"raised", "returned">>
    /\ success_registry = {tasks[3].task_name}

RECURSIVE SumTo(_, _)
\* f[1] + ... + f[n]
SumTo(f, n) == IF n = 0 THEN 0 ELSE f[n] + SumTo(f, n - 1)

\* Number of calls of task functions made so far in the run.
InvokedActions == SumTo([i \in 1..Len(tasks) |-> Len(calls[i])], Len(tasks))

\* range(0, t_retries + 1) of every task of the list.
AttemptBudget == SumTo([i \in 1..Len(tasks) |-> tasks[i].retries + 1], Len(tasks))

\* C38: a run of main over a finite task list never calls more task functions than
\* the sum of retries + 1 over the tasks, and once it has entered the loop it
\* reaches sys.exit at the end of the finally block, also when the e-mails or the
\* log maintenance raised.
C38_MainTerminates ==
    /\ [](InvokedActions <= AttemptBudget)
    /\ (pc = "loop") ~> (pc = "done" /\ exit_code \in {0, 1})

\* A finished run that used every attempt of three tasks, seven calls or more, and
\* in whose finally block both the e-mails and the log maintenance raised.
C38_Witness ==
    /\ pc = "done"
    /\ exit_code = 1
    /\ e = "stub"
    /\ Len(tasks) = 3
    /\ InvokedActions = AttemptBudget
    /\ AttemptBudget >= 7
    /\ final_errors = {"email_error", "maintenance_error"}
====
